---------------------------- MODULE Spec2Model ----------------------------
(***************************************************************************)
(* A model of three pieces of the editor:                                  *)
(*   - getHover             (vs/editor/contrib/hover/getHover.ts)          *)
(*   - QuickOpenController  (second half of oneCursor.ts)                  *)
(*   - OneCursor            (vs/editor/common/controller/oneCursor.ts)     *)
(* Each piece has its own specification (SpecHover, SpecQuickOpen,         *)
(* SpecCursor); the variables of the other pieces keep their initial       *)
(* values.                                                                 *)
(***************************************************************************)
EXTENDS Integers, Sequences, FiniteSets, TLC

VARIABLES
    \* ---- getHover ----
    hoverPc,        \* position of the getHover call: "start", "map", "joined"
    supports,       \* number of providers HoverProviderRegistry.ordered(model) returned
    model,          \* the model argument of getHover
    position,       \* the position argument of getHover
    nextIdx,        \* next index supports.map(...) visits
    provider,       \* per provider: what its provideHover call has done so far
    calls,          \* log of the provideHover invocations, in order
    values,         \* the sparse array `values` (index -> stored hover)
    promises,       \* state of promises[idx], the promise .then(...) returned
    reported,       \* log of the errors handed to onUnexpectedExternalError
    settleOrder,    \* the providers in the order their calls settled
    hoverResult,    \* the promise getHover returns
    \* ---- QuickOpenController and its editor ----
    widget,                       \* this.widget (NoWidget: null)
    widgetVisible,                \* whether the widget is showing
    liveWidgets,                  \* widgets created and not destroyed
    rangeHighlightDecorationId,   \* this.rangeHighlightDecorationId (NoDecoration: null)
    lastKnownEditorSelection,     \* this.lastKnownEditorSelection (NoSelection: null)
    editorSelection,              \* the selection of this.editor
    decorations,                  \* per editor, the highlight decorations of its model
    focusOwner,                   \* who has the keyboard focus
    lastOp,                       \* the operation that ran last
    editorCalls,                  \* the calls the last operation made on an editor
    selectionBefore,              \* the editor's selection before the last operation
    runHistory,                   \* the editor's selection at the first and at the latest
                                  \* run of the current (or last closed) quick open
    \* ---- OneCursor and its context ----
    textLines,          \* context.model: the length of each line of the text
    modelState,         \* this.modelState
    viewState,          \* this.viewState
    selTrackedRange,    \* the range last given to the model to track under
                        \* this._selTrackedRange (NoRange: none)
    cursorOp,           \* the operation that ran last on the cursor
    trackedRangeCalls,  \* the calls of context.model._setTrackedRange the last operation made
    setStateArgs        \* the modelState and viewState the last operation gave to
                        \* _setState (NoState twice: it did not call it)

hoverVars == <<hoverPc, supports, model, position, nextIdx, provider, calls, values,
               promises, reported, settleOrder, hoverResult>>

quickOpenVars == <<widget, widgetVisible, liveWidgets, rangeHighlightDecorationId,
                   lastKnownEditorSelection, editorSelection, decorations,
                   focusOwner, lastOp, editorCalls, selectionBefore, runHistory>>

cursorVars == <<textLines, modelState, viewState, selTrackedRange, cursorOp,
                trackedRangeCalls, setStateArgs>>

vars == <<hoverVars, quickOpenVars, cursorVars>>

\* what the steps of one piece leave alone
notHoverVars == <<quickOpenVars, cursorVars>>
notQuickOpenVars == <<hoverVars, cursorVars>>
notCursorVars == <<hoverVars, quickOpenVars>>

(***************************************************************************)
(* Bounds                                                                  *)
(***************************************************************************)
MaxProviders == 3
\* highlight decorations alive at once, over all editors
MaxDecorations == 2
\* widgets alive at once
MaxWidgets == 2
\* lines of the text, and characters of its longest line
MaxLines == 2
MaxLineLength == 3
\* characters per view line: longer lines are wrapped
WrapWidth == 2

(***************************************************************************)
(* JavaScript values a provider can deliver                                *)
(***************************************************************************)
Undefined == "undefined"
Null == "null"

\* what provideHover may resolve with; `by` is the identity of the object
\* (the provider that made it)
NullResult == [tag |-> Null, range |-> Undefined, ctag |-> Undefined, len |-> 0, by |-> 0]
UndefinedResult == [tag |-> Undefined, range |-> Undefined, ctag |-> Undefined, len |-> 0, by |-> 0]

\* the hover objects a provider may deliver: each way of missing the range or the
\* contents, and the two kinds that pass both tests
HoverObjects(i) ==
    { [tag |-> "object", range |-> c.range, ctag |-> c.ctag, len |-> c.len, by |-> i] :
        c \in { [range |-> Undefined, ctag |-> "array", len |-> 1],
                [range |-> Null, ctag |-> "array", len |-> 1],
                [range |-> "range", ctag |-> Undefined, len |-> 0],
                [range |-> "range", ctag |-> Null, len |-> 0],
                [range |-> "range", ctag |-> "array", len |-> 0],
                [range |-> "range", ctag |-> "array", len |-> 1] } }

ProviderResults(i) == {NullResult, UndefinedResult} \cup HoverObjects(i)

\* the (model, position) pairs getHover is called with
Requests == { <<"m1", "p1">>, <<"m2", "p2">> }

Providers == 1..supports

NotCalled == [st |-> "uncalled", val |-> UndefinedResult]
Pending == [st |-> "pending", val |-> UndefinedResult]
Resolved(r) == [st |-> "resolved", val |-> r]
Rejected == [st |-> "rejected", val |-> UndefinedResult]

(***************************************************************************)
(* Library semantics getHover relies on                                    *)
(***************************************************************************)
\* JavaScript truthiness of a provider result (!!e)
Truthy(r) == r.tag = "object"

\* length of a sparse JavaScript array: highest assigned index (1-based here)
ArrayLength(arr) ==
    IF DOMAIN arr = {} THEN 0
    ELSE CHOOSE m \in DOMAIN arr : \A k \in DOMAIN arr : k <= m

RECURSIVE FilterFrom(_, _, _)
FilterFrom(arr, i, n) ==
    IF i > n THEN <<>>
    ELSE (IF i \in DOMAIN arr /\ Truthy(arr[i]) THEN <<arr[i]>> ELSE <<>>)
         \o FilterFrom(arr, i + 1, n)

\* arrays.coalesce: array.filter(e => !!e), holes are skipped, order is kept
coalesce(arr) == FilterFrom(arr, 1, ArrayLength(arr))

\* TPromise.join over promises[1..n]: pending until every promise has settled,
\* then an error if any of them is an error, a success otherwise
TPromiseJoin(proms, n) ==
    IF \E i \in 1..n : proms[i] = "pending" THEN "pending"
    ELSE IF \E i \in 1..n : proms[i] = "rejected" THEN "rejected"
    ELSE "fulfilled"

(***************************************************************************)
(* getHover                                                                *)
(***************************************************************************)
\* mutant: the callback captured the first provider instead of its own
ProvideHoverCall_First(idx, m, p) == [support |-> 1, model |-> m, position |-> p]

\* the call support.provideHover(model, position, token) of provider idx
ProvideHoverCall(idx, m, p) == [support |-> idx, model |-> m, position |-> p]

\* mutant: the range is tested for truthiness instead of typeof ... !== 'undefined'
hasRange_Truthy(result) == result.range # Undefined /\ result.range # Null

hasRange(result) == result.range # Undefined

hasHtmlContent(result) ==
    result.ctag # Undefined /\ result.ctag # Null /\ result.len > 0

\* mutant: the result is pushed (values.push(result)) instead of stored at idx
ThenOnComplete_Push(vals, idx, result) ==
    IF Truthy(result) /\ hasRange(result) /\ hasHtmlContent(result)
    THEN ((ArrayLength(vals) + 1) :> result) @@ vals
    ELSE vals

\* the success callback of .then: the new `values`
ThenOnComplete(vals, idx, result) ==
    IF Truthy(result) /\ hasRange(result) /\ hasHtmlContent(result)
    THEN (idx :> result) @@ vals
    ELSE vals

\* mutant: .then is given no error callback, the error passes through
ThenOnError_None(rep, err) == [reported |-> rep, state |-> "rejected"]

\* mutant: the error callback reports the error and throws it again
ThenOnError_Rethrow(rep, err) == [reported |-> Append(rep, err), state |-> "rejected"]

\* the error callback of .then: the new error log and the state of the
\* promise .then returned (the callback returns normally)
ThenOnError(rep, err) == [reported |-> Append(rep, err), state |-> "fulfilled"]

\* mutant: TPromise.any instead of TPromise.join, the first settled promise wins
GetHoverReturn_Any(proms, vals, n) ==
    IF n > 0 /\ \A i \in 1..n : proms[i] = "pending"
    THEN [state |-> "pending", value |-> <<>>]
    ELSE [state |-> "resolved", value |-> coalesce(vals)]

\* TPromise.join(promises).then(() => coalesce(values))
GetHoverReturn(proms, vals, n) ==
    LET j == TPromiseJoin(proms, n) IN
    IF j = "pending" THEN [state |-> "pending", value |-> <<>>]
    ELSE IF j = "rejected" THEN [state |-> "rejected", value |-> <<>>]
    ELSE [state |-> "resolved", value |-> coalesce(vals)]

\* a promise settles once
SettleOnce(old, new) == IF old.state = "pending" THEN new ELSE old

\* getHover before it is called
InitHoverVars ==
    /\ hoverPc = "start"
    /\ nextIdx = 1
    /\ provider = [i \in 1..MaxProviders |-> NotCalled]
    /\ calls = <<>>
    /\ values = <<>>
    /\ promises = [i \in 1..MaxProviders |-> "none"]
    /\ reported = <<>>
    /\ settleOrder = <<>>
    /\ hoverResult = [state |-> "none", value |-> <<>>]

HoverIdle ==
    /\ InitHoverVars
    /\ supports = 0
    /\ model = "m1"
    /\ position = "p1"

(***************************************************************************)
(* OneCursor                                                               *)
(***************************************************************************)
Min(a, b) == IF a < b THEN a ELSE b
Max(a, b) == IF a > b THEN a ELSE b

\* the value of a singleton set: in Once({ e : x \in {a} }), a is computed
\* once and then named x in e, as a const is
Once(S) == CHOOSE r \in S : TRUE

Position(lineNumber, column) == [lineNumber |-> lineNumber, column |-> column]

PositionBefore(p, q) ==
    p.lineNumber < q.lineNumber \/ (p.lineNumber = q.lineNumber /\ p.column < q.column)

\* new Range(...): the constructor puts the two ends in order
Range(startLineNumber, startColumn, endLineNumber, endColumn) ==
    IF endLineNumber < startLineNumber
         \/ (endLineNumber = startLineNumber /\ endColumn < startColumn)
    THEN [startLineNumber |-> endLineNumber, startColumn |-> endColumn,
          endLineNumber |-> startLineNumber, endColumn |-> startColumn]
    ELSE [startLineNumber |-> startLineNumber, startColumn |-> startColumn,
          endLineNumber |-> endLineNumber, endColumn |-> endColumn]

RangeOf(p, q) ==
    Once({ Range(a.lineNumber, a.column, b.lineNumber, b.column) : a \in {p}, b \in {q} })

StartOf(r) == Once({ Position(x.startLineNumber, x.startColumn) : x \in {r} })
EndOf(r) == Once({ Position(x.endLineNumber, x.endColumn) : x \in {r} })

SingleCursorState(selectionStart, selectionStartLeftover, cursorPosition, leftover) ==
    [selectionStart |-> selectionStart,
     selectionStartLeftoverVisibleColumns |-> selectionStartLeftover,
     position |-> cursorPosition,
     leftoverVisibleColumns |-> leftover]

\* a state that is null
NoState == SingleCursorState(Range(0, 0, 0, 0), 0, Position(0, 0), 0)
NoRange == Range(0, 0, 0, 0)

\* SingleCursorState.selection: from selectionStart to position
SelectionOf(state) ==
    Once({ IF StartOf(st.selectionStart) = EndOf(st.selectionStart)
                \/ ~(PositionBefore(st.position, StartOf(st.selectionStart))
                       \/ st.position = StartOf(st.selectionStart))
           THEN RangeOf(StartOf(st.selectionStart), st.position)
           ELSE RangeOf(EndOf(st.selectionStart), st.position)
           : st \in {state} })

\* ---- context.model: a text of one or more lines ----
\* a line is empty or as long as a line gets
LineLengths == {0, MaxLineLength}

Texts == UNION { [1..n -> LineLengths] : n \in 1..MaxLines }

getLineMaxColumn(text, lineNumber) == text[lineNumber] + 1

\* context.model.validatePosition: the position clamped into the text
validatePosition(text, p) ==
    Once({ IF q.lineNumber < 1 THEN Position(1, 1)
           ELSE IF q.lineNumber > Len(text)
                THEN Position(Len(text), getLineMaxColumn(text, Len(text)))
           ELSE IF q.column <= 1 THEN Position(q.lineNumber, 1)
           ELSE Position(q.lineNumber, Min(q.column, getLineMaxColumn(text, q.lineNumber)))
           : q \in {p} })

\* context.model.validateRange: both ends clamped into the text
validateRange(text, r) ==
    Once({ RangeOf(validatePosition(text, StartOf(x)), validatePosition(text, EndOf(x)))
           : x \in {r} })

\* ---- context: the view, where a line longer than WrapWidth is wrapped ----
ViewLineCount(len) == IF len <= WrapWidth THEN 1 ELSE (len + WrapWidth - 1) \div WrapWidth

RECURSIVE ViewLinesBefore(_, _)
ViewLinesBefore(text, lineNumber) ==
    IF lineNumber <= 1 THEN 0
    ELSE ViewLinesBefore(text, lineNumber - 1) + ViewLineCount(text[lineNumber - 1])

TotalViewLines(text) == ViewLinesBefore(text, Len(text) + 1)

\* the model line a view line belongs to
ModelLineOf(text, viewLine) ==
    CHOOSE l \in 1..Len(text) :
        /\ ViewLinesBefore(text, l) < viewLine
        /\ viewLine <= ViewLinesBefore(text, l + 1)

\* the part of model line l shown as its k-th view line (k from 0): its length
SegmentLength(text, l, k) ==
    IF k = ViewLineCount(text[l]) - 1 THEN text[l] - k * WrapWidth ELSE WrapWidth

\* the view position of a model position that is inside the text
ViewPositionOf(text, q) ==
    Once({ Position(ViewLinesBefore(text, q.lineNumber) + k + 1, q.column - k * WrapWidth)
           : k \in {Min((q.column - 1) \div WrapWidth, ViewLineCount(text[q.lineNumber]) - 1)} })

convertModelPositionToViewPosition(text, p) ==
    Once({ ViewPositionOf(text, q) : q \in {validatePosition(text, p)} })

\* a view position on view line vl of model line l, its column clamped
ClampedViewPosition(text, v, vl, l) ==
    Once({ IF v.lineNumber > TotalViewLines(text)
           THEN Position(vl, segment + 1)
           ELSE Position(vl, Max(1, Min(v.column, segment + 1)))
           : segment \in {SegmentLength(text, l, vl - ViewLinesBefore(text, l) - 1)} })

\* a view position clamped into the view
ValidViewPosition(text, vp) ==
    Once({ IF v.lineNumber < 1 THEN Position(1, 1)
           ELSE Once({ ClampedViewPosition(text, v, vl, ModelLineOf(text, vl))
                       : vl \in {Min(v.lineNumber, TotalViewLines(text))} })
           : v \in {vp} })

\* the model position of a view position that is inside the view
ModelPositionOf(text, vp) ==
    Once({ Position(l, (vp.lineNumber - ViewLinesBefore(text, l) - 1) * WrapWidth + vp.column)
           : l \in {ModelLineOf(text, vp.lineNumber)} })

convertViewPositionToModelPosition(text, viewLineNumber, viewColumn) ==
    Once({ ModelPositionOf(text, vp)
           : vp \in {ValidViewPosition(text, Position(viewLineNumber, viewColumn))} })

convertViewRangeToModelRange(text, r) ==
    Once({ RangeOf(convertViewPositionToModelPosition(text, x.startLineNumber, x.startColumn),
                   convertViewPositionToModelPosition(text, x.endLineNumber, x.endColumn))
           : x \in {r} })

\* context.validateViewPosition: the view position if it stands for the
\* expected model position, the image of the model position otherwise
validateViewPosition(text, viewPosition, expectedModelPosition) ==
    Once({ IF convertViewPositionToModelPosition(text, vp.lineNumber, vp.column) = expected
           THEN vp
           ELSE convertModelPositionToViewPosition(text, expected)
           : vp \in {ValidViewPosition(text, viewPosition)},
             expected \in {expectedModelPosition} })

validateViewRange(text, viewRange, expectedModelRange) ==
    Once({ RangeOf(validateViewPosition(text, StartOf(vr), StartOf(expected)),
                   validateViewPosition(text, EndOf(vr), EndOf(expected)))
           : vr \in {viewRange}, expected \in {expectedModelRange} })

\* ---- _setState ----
\* the model state computed from the view state alone
ModelStateOfView(text, vs) ==
    SingleCursorState(
        validateRange(text, convertViewRangeToModelRange(text, vs.selectionStart)),
        vs.selectionStartLeftoverVisibleColumns,
        validatePosition(text, convertViewPositionToModelPosition(
                                   text, vs.position.lineNumber, vs.position.column)),
        vs.leftoverVisibleColumns)

\* mutant: the two leftovers are kept or reset together
ValidatedModelState_Coupled(text, ms) ==
    Once({ SingleCursorState(
               selectionStart,
               IF ms.selectionStart = selectionStart /\ ms.position = validPosition
               THEN ms.selectionStartLeftoverVisibleColumns ELSE 0,
               validPosition,
               IF ms.selectionStart = selectionStart /\ ms.position = validPosition
               THEN ms.leftoverVisibleColumns ELSE 0)
           : selectionStart \in {validateRange(text, ms.selectionStart)},
             validPosition \in {validatePosition(text, ms.position)} })

\* the given model state, validated
ValidatedModelState(text, ms) ==
    Once({ SingleCursorState(
               selectionStart,
               IF ms.selectionStart = selectionStart
               THEN ms.selectionStartLeftoverVisibleColumns ELSE 0,
               validPosition,
               IF ms.position = validPosition THEN ms.leftoverVisibleColumns ELSE 0)
           : selectionStart \in {validateRange(text, ms.selectionStart)},
             validPosition \in {validatePosition(text, ms.position)} })

\* mutant: a given model state is stored as it is
NewModelState_Unchecked(text, modelStateArg, viewStateArg) ==
    Once({ IF ms = NoState THEN ModelStateOfView(text, vs) ELSE ms
           : ms \in {modelStateArg}, vs \in {viewStateArg} })

\* the first half of _setState: the model state, computed from the view state
\* or validated
NewModelState(text, modelStateArg, viewStateArg) ==
    Once({ IF ms = NoState THEN ModelStateOfView(text, vs) ELSE ValidatedModelState(text, ms)
           : ms \in {modelStateArg}, vs \in {viewStateArg} })

\* the view state computed from the model state alone
ViewStateOfModel(text, ms) ==
    Once({ SingleCursorState(
               Range(viewSelectionStart1.lineNumber, viewSelectionStart1.column,
                     viewSelectionStart2.lineNumber, viewSelectionStart2.column),
               ms.selectionStartLeftoverVisibleColumns,
               convertModelPositionToViewPosition(text, ms.position),
               ms.leftoverVisibleColumns)
           : viewSelectionStart1 \in
                 {convertModelPositionToViewPosition(text, StartOf(ms.selectionStart))},
             viewSelectionStart2 \in
                 {convertModelPositionToViewPosition(text, EndOf(ms.selectionStart))} })

\* mutant: a given view state is stored as it is
NewViewState_Unchecked(text, modelStateArg, viewStateArg) ==
    Once({ IF vs = NoState THEN ViewStateOfModel(text, ms) ELSE vs
           : ms \in {modelStateArg}, vs \in {viewStateArg} })

\* the second half of _setState: the view state, computed from the (new) model
\* state or validated against it
NewViewState(text, modelStateArg, viewStateArg) ==
    Once({ IF vs = NoState THEN ViewStateOfModel(text, ms)
           ELSE SingleCursorState(
                    validateViewRange(text, vs.selectionStart, ms.selectionStart),
                    ms.selectionStartLeftoverVisibleColumns,
                    validateViewPosition(text, vs.position, ms.position),
                    ms.leftoverVisibleColumns)
           : ms \in {modelStateArg}, vs \in {viewStateArg} })

\* mutant: the new states are stored and the range is tracked anew every time
StoreState_Always(cur, newModelState, newViewState) ==
    [modelState |-> newModelState, viewState |-> newViewState,
     tracked |-> SelectionOf(newModelState),
     calls |-> << SelectionOf(newModelState) >>]

\* the end of _setState on a cursor in state cur (its modelState, viewState and
\* tracked range): nothing if the new states equal the current ones, else the
\* assignments and the _setTrackedRange call
StoreState(cur, newModelState, newViewState) ==
    IF cur.modelState # NoState /\ cur.viewState # NoState
       /\ cur.modelState = newModelState /\ cur.viewState = newViewState
    THEN [modelState |-> cur.modelState, viewState |-> cur.viewState,
          tracked |-> cur.tracked, calls |-> <<>>]
    ELSE [modelState |-> newModelState, viewState |-> newViewState,
          tracked |-> SelectionOf(newModelState),
          calls |-> << SelectionOf(newModelState) >>]

\* _setState(context, modelState, viewState): the cursor afterwards and the
\* _setTrackedRange calls made
setStateEffect(text, cur, ms, vs) ==
    Once({ Once({ StoreState(c, newModelState, newViewState)
                  : c \in {cur}, newViewState \in {NewViewState(text, newModelState, vs)} })
           : newModelState \in {NewModelState(text, ms, vs)} })

\* the arguments of a _setState call
StateArgs(ms, vs) == [modelState |-> ms, viewState |-> vs]
NoArgs == StateArgs(NoState, NoState)

\* the states the constructor gives to _setState
ConstructorState == SingleCursorState(Range(1, 1, 1, 1), 0, Position(1, 1), 0)

\* new OneCursor(context)
ConstructedCursor(text) ==
    setStateEffect(text,
                   [modelState |-> NoState, viewState |-> NoState, tracked |-> NoRange],
                   ConstructorState, ConstructorState)

ThisCursor == [modelState |-> modelState, viewState |-> viewState,
               tracked |-> selTrackedRange]

\* the states setState is called with: positions and ranges inside the text,
\* past the end of a line and past the last line
InputPositions == { Position(1, 3), Position(2, 2), Position(MaxLines + 1, 1) }

InputRanges == { Range(1, 3, 1, 3), Range(1, 1, 2, 2), Range(2, 2, MaxLines + 1, 1) }

InputLeftovers == { <<0, 0>>, <<2, 3>> }

InputStates ==
    { SingleCursorState(r, lv[1], p, lv[2]) :
        r \in InputRanges, p \in InputPositions, lv \in InputLeftovers }

\* the view states given alone: their leftover columns are copied
InputViewOnlyStates ==
    { SingleCursorState(r, 2, p, 3) : r \in InputRanges, p \in InputPositions }

\* the model states given together with a view state
InputStatesWithView ==
    { SingleCursorState(m[1], 2, m[2], 3) :
        m \in { <<Range(1, 3, 1, 3), Position(1, 3)>>,
                <<Range(1, 1, 2, 2), Position(2, 2)>>,
                <<Range(2, 2, MaxLines + 1, 1), Position(MaxLines + 1, 1)>> } }

\* the view states given together with a model state (their leftover columns
\* are not read then)
InputViewStates ==
    { SingleCursorState(v[1], 0, v[2], 0) :
        v \in { <<Range(1, 3, 1, 3), Position(1, 3)>>,
                <<Range(1, 1, 2, 1), Position(2, 1)>>,
                <<Range(2, 2, MaxLines + 1, 1), Position(2, 2)>> } }

InitCursorVars(text) ==
    LET c == ConstructedCursor(text) IN
    /\ textLines = text
    /\ modelState = c.modelState
    /\ viewState = c.viewState
    /\ selTrackedRange = c.tracked
    /\ trackedRangeCalls = c.calls
    /\ setStateArgs = StateArgs(ConstructorState, ConstructorState)
    /\ cursorOp = "new"

CursorIdle == InitCursorVars(<<0>>)

ApplySetState(ms, vs) ==
    \E c \in { setStateEffect(textLines, ThisCursor, ms, vs) } :
    /\ modelState' = c.modelState
    /\ viewState' = c.viewState
    /\ selTrackedRange' = c.tracked
    /\ trackedRangeCalls' = c.calls
    /\ setStateArgs' = StateArgs(ms, vs)

\* setState(context, modelState, viewState)
SetState(ms, vs) ==
    /\ cursorOp # "dispose"
    /\ ms # NoState \/ vs # NoState
    /\ ApplySetState(ms, vs)
    /\ cursorOp' = "setState"
    /\ UNCHANGED textLines
    /\ UNCHANGED notCursorVars

\* ensureValidState(context)
EnsureValidState ==
    /\ cursorOp # "dispose"
    /\ ApplySetState(modelState, viewState)
    /\ cursorOp' = "ensureValidState"
    /\ UNCHANGED textLines
    /\ UNCHANGED notCursorVars

\* dispose(context): the tracked range is given up
DisposeCursor ==
    /\ cursorOp # "dispose"
    /\ selTrackedRange' = NoRange
    /\ trackedRangeCalls' = << NoRange >>
    /\ setStateArgs' = NoArgs
    /\ cursorOp' = "dispose"
    /\ UNCHANGED <<textLines, modelState, viewState>>
    /\ UNCHANGED notCursorVars

\* the text is edited; the cursor is not told
EditText(text) ==
    /\ cursorOp # "dispose"
    /\ text # textLines
    /\ textLines' = text
    /\ trackedRangeCalls' = <<>>
    /\ setStateArgs' = NoArgs
    /\ cursorOp' = "edit"
    /\ UNCHANGED <<modelState, viewState, selTrackedRange>>
    /\ UNCHANGED notCursorVars

(***************************************************************************)
(* QuickOpenController                                                     *)
(***************************************************************************)
NoWidget == 0
NoDecoration == 0
NoSelection == "null"

Selections == {"s1", "s2", "s3"}
Ranges == {"r1", "r2"}

\* the controller's editor and another editor, on another model
ThisEditor == "this.editor"
OtherEditor == "other editor"
Editors == {ThisEditor, OtherEditor}

\* ---- the editor, as the controller uses it ----
EditorCall(fn, e, arg) == [fn |-> fn, editor |-> e, arg |-> arg]

\* ids of the decorations alive in some editor
LiveDecorationIds == { d.id : d \in UNION { decorations[e] : e \in Editors } }

\* a decoration id no model has handed out (models never reuse an id)
FreshDecorationId ==
    CHOOSE n \in 1..(MaxDecorations + 1) :
        /\ n \notin LiveDecorationIds \cup {rangeHighlightDecorationId}
        /\ \A k \in 1..(n - 1) : k \in LiveDecorationIds \cup {rangeHighlightDecorationId}

\* changeAccessor.deltaDecorations(oldDecorations, newDecorations) on the model
\* of one editor: the old ids that model knows are removed, the others are
\* ignored; every new decoration gets the next id of newIds
deltaDecorations(decos, oldDecorations, newDecorations, newIds) ==
    { d \in decos : d.id \notin oldDecorations }
        \cup { [id |-> newIds[k], range |-> newDecorations[k]] :
                   k \in 1..Len(newDecorations) }

\* the selection of the editor after a sequence of calls on it
RECURSIVE SelectionAfter(_, _)
SelectionAfter(sel, cs) ==
    IF cs = <<>> THEN sel
    ELSE SelectionAfter(
             IF Head(cs).fn = "setSelection" /\ Head(cs).editor = ThisEditor
             THEN Head(cs).arg ELSE sel,
             Tail(cs))

\* a widget object that does not exist yet
FreshWidget ==
    CHOOSE n \in 1..(MaxWidgets + 1) :
        n \notin liveWidgets /\ \A k \in 1..(n - 1) : k \in liveWidgets

\* ---- the controller ----
\* mutant: the widget is dropped without being destroyed
DestroyWidget_Forget(w, live) == live

\* dispose, and the head of run: this.widget.destroy(); this.widget = null
DestroyWidget(w, live) == IF w # NoWidget THEN live \ {w} ELSE live

\* mutant: run keeps the selection of the latest run
RememberSelection_Always(last, current) == current

\* run: remember selection to be able to restore on cancel
RememberSelection(last, current) ==
    IF last = NoSelection THEN current ELSE last

\* mutant: the selection is restored on every close that has one remembered
OnCloseRestore_Always(canceled, last) ==
    IF last # NoSelection
    THEN << EditorCall("setSelection", ThisEditor, last),
            EditorCall("revealRangeInCenterIfOutsideViewport", ThisEditor, last) >>
    ELSE <<>>

\* mutant: on cancel the controller only reveals the remembered selection
OnCloseRestore_RevealOnly(canceled, last) ==
    IF canceled /\ last # NoSelection
    THEN << EditorCall("revealRangeInCenterIfOutsideViewport", ThisEditor, last) >>
    ELSE <<>>

\* onClose: restore selection if canceled
OnCloseRestore(canceled, last) ==
    IF canceled /\ last # NoSelection
    THEN << EditorCall("setSelection", ThisEditor, last),
            EditorCall("revealRangeInCenterIfOutsideViewport", ThisEditor, last) >>
    ELSE <<>>

\* mutant: the decoration is removed but the recorded id is kept
clearDecorationsEffect_KeepId(decos, id) ==
    IF id # NoDecoration
    THEN [decorations |-> [decos EXCEPT ![ThisEditor] =
                               deltaDecorations(decos[ThisEditor], {id}, <<>>, <<>>)],
          id |-> id,
          calls |-> << EditorCall("changeDecorations", ThisEditor, "-") >>]
    ELSE [decorations |-> decos, id |-> id, calls |-> <<>>]

\* clearDecorations: the decorations, the recorded id and the editor calls
clearDecorationsEffect(decos, id) ==
    IF id # NoDecoration
    THEN [decorations |-> [decos EXCEPT ![ThisEditor] =
                               deltaDecorations(decos[ThisEditor], {id}, <<>>, <<>>)],
          id |-> NoDecoration,
          calls |-> << EditorCall("changeDecorations", ThisEditor, "-") >>]
    ELSE [decorations |-> decos, id |-> id, calls |-> <<>>]

\* decorateLine(range, editor): the decorations and the recorded id
decorateLineEffect(decos, id, range, editor, fresh) ==
    LET oldDecorations == IF id # NoDecoration THEN {id} ELSE {} IN
    [decorations |-> [decos EXCEPT ![editor] =
                          deltaDecorations(decos[editor], oldDecorations,
                                           <<range>>, <<fresh>>)],
     id |-> fresh,
     calls |-> << EditorCall("changeDecorations", editor, "-") >>]

\* the controller after construction
InitQuickOpenVars ==
    /\ widget = NoWidget
    /\ widgetVisible = FALSE
    /\ liveWidgets = {}
    /\ rangeHighlightDecorationId = NoDecoration
    /\ lastKnownEditorSelection = NoSelection
    /\ decorations = [e \in Editors |-> {}]
    /\ focusOwner = "editor"
    /\ lastOp = "new"
    /\ editorCalls = <<>>
    /\ runHistory = [open |-> FALSE, first |-> NoSelection, last |-> NoSelection]

QuickOpenIdle ==
    /\ InitQuickOpenVars
    /\ editorSelection = "s1"
    /\ selectionBefore = "s1"

InitCursor ==
    /\ \E text \in Texts : InitCursorVars(text)
    /\ HoverIdle
    /\ QuickOpenIdle

InitQuickOpen ==
    /\ InitQuickOpenVars
    /\ editorSelection \in Selections
    /\ selectionBefore = editorSelection
    /\ HoverIdle
    /\ CursorIdle

NextCursor ==
    \/ \E ms \in InputStates : SetState(ms, NoState)
    \/ \E vs \in InputViewOnlyStates : SetState(NoState, vs)
    \/ \E ms \in InputStatesWithView, vs \in InputViewStates : SetState(ms, vs)
    \/ EnsureValidState
    \/ DisposeCursor
    \/ \E text \in Texts : EditText(text)

SpecCursor == InitCursor /\ [][NextCursor]_vars

\* run(opts)
Run ==
    /\ FreshWidget <= MaxWidgets
    /\ LET w == FreshWidget IN
       /\ liveWidgets' = DestroyWidget(widget, liveWidgets) \cup {w}
       /\ widget' = w
    /\ lastKnownEditorSelection' =
           RememberSelection(lastKnownEditorSelection, editorSelection)
    /\ editorCalls' = IF lastKnownEditorSelection = NoSelection
                      THEN << EditorCall("getSelection", ThisEditor, "-") >>
                      ELSE <<>>
    /\ widgetVisible' = TRUE
    /\ focusOwner' = "widget"
    /\ lastOp' = "run"
    /\ selectionBefore' = editorSelection
    /\ runHistory' = IF runHistory.open
                     THEN [runHistory EXCEPT !.last = editorSelection]
                     ELSE [open |-> TRUE, first |-> editorSelection,
                           last |-> editorSelection]
    /\ UNCHANGED <<rangeHighlightDecorationId, editorSelection, decorations>>
    /\ UNCHANGED notQuickOpenVars

\* onClose(canceled), called by the showing widget when it closes
OnClose(canceled) ==
    /\ widget # NoWidget
    /\ widgetVisible
    /\ LET c == clearDecorationsEffect(decorations, rangeHighlightDecorationId)
           cs == c.calls
                   \o OnCloseRestore(canceled, lastKnownEditorSelection)
                   \o << EditorCall("focus", ThisEditor, "-") >>
       IN
       /\ decorations' = c.decorations
       /\ rangeHighlightDecorationId' = c.id
       /\ editorCalls' = cs
       /\ editorSelection' = SelectionAfter(editorSelection, cs)
    /\ lastKnownEditorSelection' = NoSelection
    /\ focusOwner' = "editor"
    /\ widgetVisible' = FALSE
    /\ lastOp' = IF canceled THEN "close canceled" ELSE "close confirmed"
    /\ selectionBefore' = editorSelection
    /\ runHistory' = [runHistory EXCEPT !.open = FALSE]
    /\ UNCHANGED <<widget, liveWidgets>>
    /\ UNCHANGED notQuickOpenVars

\* decorateLine(range, editor)
DecorateLine(range, editor) ==
    /\ FreshDecorationId <= MaxDecorations
    /\ LET d == decorateLineEffect(decorations, rangeHighlightDecorationId,
                                   range, editor, FreshDecorationId)
       IN
       /\ decorations' = d.decorations
       /\ rangeHighlightDecorationId' = d.id
       /\ editorCalls' = d.calls
    /\ lastOp' = "decorateLine"
    /\ selectionBefore' = editorSelection
    /\ UNCHANGED runHistory
    /\ UNCHANGED <<widget, widgetVisible, liveWidgets, lastKnownEditorSelection,
                   editorSelection, focusOwner>>
    /\ UNCHANGED notQuickOpenVars

\* clearDecorations()
ClearDecorations ==
    /\ LET c == clearDecorationsEffect(decorations, rangeHighlightDecorationId) IN
       /\ decorations' = c.decorations
       /\ rangeHighlightDecorationId' = c.id
       /\ editorCalls' = c.calls
    /\ lastOp' = "clearDecorations"
    /\ selectionBefore' = editorSelection
    /\ UNCHANGED runHistory
    /\ UNCHANGED <<widget, widgetVisible, liveWidgets, lastKnownEditorSelection,
                   editorSelection, focusOwner>>
    /\ UNCHANGED notQuickOpenVars

\* dispose()
Dispose ==
    /\ liveWidgets' = DestroyWidget(widget, liveWidgets)
    /\ widget' = NoWidget
    /\ widgetVisible' = FALSE
    /\ lastOp' = "dispose"
    /\ selectionBefore' = editorSelection
    /\ UNCHANGED runHistory
    /\ editorCalls' = <<>>
    /\ UNCHANGED <<rangeHighlightDecorationId, lastKnownEditorSelection,
                   editorSelection, decorations, focusOwner>>
    /\ UNCHANGED notQuickOpenVars

\* the selection of the editor changes (the user, or a quick open entry)
ChangeSelection(sel) ==
    /\ sel # editorSelection
    /\ editorSelection' = sel
    /\ lastOp' = "selection changed"
    /\ selectionBefore' = editorSelection
    /\ UNCHANGED runHistory
    /\ editorCalls' = <<>>
    /\ UNCHANGED <<widget, widgetVisible, liveWidgets, rangeHighlightDecorationId,
                   lastKnownEditorSelection, decorations, focusOwner>>
    /\ UNCHANGED notQuickOpenVars

NextQuickOpen ==
    \/ Run
    \/ \E canceled \in BOOLEAN : OnClose(canceled)
    \/ \E range \in Ranges, editor \in Editors : DecorateLine(range, editor)
    \/ ClearDecorations
    \/ Dispose
    \/ \E sel \in Selections : ChangeSelection(sel)

SpecQuickOpen == InitQuickOpen /\ [][NextQuickOpen]_vars

(***************************************************************************)
(* getHover: the call                                                      *)
(***************************************************************************)
InitHover ==
    /\ InitHoverVars
    /\ supports \in 0..MaxProviders
    /\ \E rq \in Requests : model = rq[1] /\ position = rq[2]
    /\ QuickOpenIdle
    /\ CursorIdle

\* getHover is entered: supports and values are set up
GetHover ==
    /\ hoverPc = "start"
    /\ hoverPc' = "map"
    /\ nextIdx' = 1
    /\ values' = <<>>
    /\ UNCHANGED <<supports, model, position, provider, calls, promises,
                   reported, settleOrder, hoverResult>>
    /\ UNCHANGED notHoverVars

\* the provider's promise resolved with r: the success callback runs
Complete(idx, r) ==
    /\ provider' = [provider EXCEPT ![idx] = Resolved(r)]
    /\ values' = ThenOnComplete(values, idx, r)
    /\ promises' = [promises EXCEPT ![idx] = "fulfilled"]
    /\ reported' = reported
    /\ settleOrder' = Append(settleOrder, idx)

\* the provider's promise is an error: the error callback runs
Fail(idx) ==
    LET h == ThenOnError(reported, idx) IN
    /\ provider' = [provider EXCEPT ![idx] = Rejected]
    /\ values' = values
    /\ promises' = [promises EXCEPT ![idx] = h.state]
    /\ reported' = h.reported
    /\ settleOrder' = Append(settleOrder, idx)

\* one iteration of supports.map: provideHover is invoked; it returns a plain
\* value or throws (asWinJsPromise settles at once and the callback of .then
\* runs synchronously), or it returns a promise that is still pending
MapStep ==
    /\ hoverPc = "map"
    /\ nextIdx <= supports
    /\ calls' = Append(calls, ProvideHoverCall(nextIdx, model, position))
    /\ nextIdx' = nextIdx + 1
    /\ \/ \E r \in ProviderResults(nextIdx) : Complete(nextIdx, r)
       \/ Fail(nextIdx)
       \/ /\ provider' = [provider EXCEPT ![nextIdx] = Pending]
          /\ promises' = [promises EXCEPT ![nextIdx] = "pending"]
          /\ UNCHANGED <<values, reported, settleOrder>>
    /\ UNCHANGED <<hoverPc, supports, model, position, hoverResult>>
    /\ UNCHANGED notHoverVars

\* the last statement: join the promises and return
Join ==
    /\ hoverPc = "map"
    /\ nextIdx > supports
    /\ hoverPc' = "joined"
    /\ hoverResult' = GetHoverReturn(promises, values, supports)
    /\ UNCHANGED <<supports, model, position, nextIdx, provider, calls,
                   values, promises, reported, settleOrder>>
    /\ UNCHANGED notHoverVars

\* a pending provider promise resolves after getHover returned
SettleResolve(i) ==
    /\ hoverPc = "joined"
    /\ provider[i].st = "pending"
    /\ \E r \in ProviderResults(i) : Complete(i, r)
    /\ hoverResult' = SettleOnce(hoverResult, GetHoverReturn(promises', values', supports))
    /\ UNCHANGED <<hoverPc, supports, model, position, nextIdx, calls>>
    /\ UNCHANGED notHoverVars

\* a pending provider promise is rejected after getHover returned
SettleReject(i) ==
    /\ hoverPc = "joined"
    /\ provider[i].st = "pending"
    /\ Fail(i)
    /\ hoverResult' = SettleOnce(hoverResult, GetHoverReturn(promises', values', supports))
    /\ UNCHANGED <<hoverPc, supports, model, position, nextIdx, calls>>
    /\ UNCHANGED notHoverVars

NextHover ==
    \/ GetHover
    \/ MapStep
    \/ Join
    \/ \E i \in 1..MaxProviders : SettleResolve(i)
    \/ \E i \in 1..MaxProviders : SettleReject(i)

SpecHover == InitHover /\ [][NextHover]_vars

\* the synchronous part of getHover runs to completion once it is entered
SpecHoverLive == SpecHover /\ WF_vars(MapStep) /\ WF_vars(Join)

(***************************************************************************)
(* Properties of getHover                                                  *)
(***************************************************************************)
Elems(seq) == { seq[k] : k \in 1..Len(seq) }

Count(seq, x) == Cardinality({ k \in 1..Len(seq) : seq[k] = x })

IndexOf(seq, x) == CHOOSE k \in 1..Len(seq) : seq[k] = x

\* a valid hover, in the words of the claims
ValidHover(r) ==
    r.tag = "object" /\ r.range # Undefined /\ r.ctag = "array" /\ r.len > 0

Settled(i) == provider[i].st \in {"resolved", "rejected"}

Delivered(i) == provider[i].st = "resolved" /\ ValidHover(provider[i].val)

HoverResolved == hoverResult.state = "resolved"

\* C1: getHover's promise never rejects; every failed provideHover call is
\* handed to onUnexpectedExternalError exactly once (and nothing else is); once
\* all calls have settled the promise is resolved, with every valid hover of a
\* succeeding provider and with no entry of a failing one.
C1_ErrorsSuppressed ==
    /\ hoverResult.state # "rejected"
    /\ \A i \in 1..MaxProviders :
         Count(reported, i) = (IF provider[i].st = "rejected" THEN 1 ELSE 0)
    /\ Len(reported) = Cardinality({ i \in Providers : provider[i].st = "rejected" })
    /\ (hoverPc = "joined" /\ \A i \in Providers : Settled(i)) => HoverResolved
    /\ HoverResolved =>
         /\ \A h \in Elems(hoverResult.value) :
              h.by \in Providers /\ provider[h.by].st = "resolved"
         /\ \A i \in Providers : Delivered(i) => provider[i].val \in Elems(hoverResult.value)

C1_Witness ==
    /\ HoverResolved
    /\ \E i, j, k \in Providers :
         /\ i < j /\ j < k
         /\ provider[i].st = "rejected" /\ Delivered(j) /\ provider[k].st = "rejected"
    /\ Len(hoverResult.value) = 1

\* C2: the resolved list holds exactly the provider results that are truthy,
\* have a range that is not undefined and a contents array of length > 0, each
\* once; it has no null/undefined entry, is no longer than the provider list,
\* and is empty when there are no providers.
C2_ExactlyValid ==
    HoverResolved =>
        LET valid == { i \in Providers : Delivered(i) } IN
        /\ Elems(hoverResult.value) = { provider[i].val : i \in valid }
        /\ Len(hoverResult.value) = Cardinality(valid)
        /\ \A k \in 1..Len(hoverResult.value) :
             hoverResult.value[k].tag \notin {Null, Undefined}
        /\ Len(hoverResult.value) <= supports
        /\ supports = 0 => hoverResult.value = <<>>

C2_Witness ==
    /\ HoverResolved
    /\ \E i, j, k \in Providers :
         /\ provider[i].st = "resolved" /\ provider[i].val.tag = "object"
         /\ provider[i].val.range = Null /\ provider[i].val.len = 1
         /\ provider[i].val \in Elems(hoverResult.value)
         /\ provider[j].st = "resolved" /\ provider[j].val.tag = "object"
         /\ provider[j].val.range = Undefined
         /\ provider[j].val \notin Elems(hoverResult.value)
         /\ provider[k].st = "resolved" /\ provider[k].val = NullResult

\* C6: in the resolved list the hovers stand in the order of their providers,
\* whatever the order in which the provider calls settled.
C6_ProviderOrder ==
    HoverResolved =>
        /\ \A a, b \in 1..Len(hoverResult.value) :
             a < b => hoverResult.value[a].by < hoverResult.value[b].by
        /\ \A i, j \in Providers :
             (i < j /\ Delivered(i) /\ Delivered(j)) =>
                 IndexOf(hoverResult.value, provider[i].val)
                     < IndexOf(hoverResult.value, provider[j].val)

C6_Witness ==
    /\ HoverResolved
    /\ \E i, j \in Providers :
         /\ i < j /\ Delivered(i) /\ Delivered(j)
         /\ IndexOf(settleOrder, j) < IndexOf(settleOrder, i)

\* C7: getHover's promise is not resolved (nor settled in any way) while a
\* provideHover call is pending, even when other providers delivered hovers.
C7_WaitsForAll ==
    /\ HoverResolved => \A i \in Providers : Settled(i)
    /\ (hoverPc = "joined" /\ \E i \in Providers : provider[i].st = "pending")
           => hoverResult.state = "pending"

C7_Witness ==
    /\ hoverPc = "joined"
    /\ hoverResult.state = "pending"
    /\ \E i, j \in Providers :
         i < j /\ provider[i].st = "pending" /\ Delivered(j) /\ j \in DOMAIN values

\* C8: once getHover was called and every provideHover call has settled, the
\* promise getHover returns is eventually resolved.
C8_EventuallyResolves ==
    (hoverPc # "start" /\ nextIdx > supports /\ \A i \in Providers : Settled(i))
        ~> HoverResolved

C8_Witness ==
    /\ HoverResolved
    /\ supports = MaxProviders
    /\ \E i, j \in Providers :
         /\ i < j /\ provider[i].st = "rejected" /\ provider[j].st = "resolved"
         /\ IndexOf(settleOrder, j) < IndexOf(settleOrder, i)

\* C9: provideHover is invoked once per provider, in provider order, each time
\* with getHover's model and position; all invocations have been made when the
\* promises are joined, whatever the state of the other providers' calls.
C9_FanOut ==
    /\ \A k \in 1..Len(calls) :
         calls[k] = [support |-> k, model |-> model, position |-> position]
    /\ Len(calls) <= supports
    /\ hoverPc = "map" => Len(calls) = nextIdx - 1
    /\ hoverResult.state # "none" => Len(calls) = supports
    /\ \A i \in Providers : provider[i].st # "uncalled" <=> i <= Len(calls)

C9_Witness ==
    /\ hoverResult.state = "pending"
    /\ Len(calls) = supports
    /\ \E i, j, k \in Providers :
         /\ i < j /\ j < k
         /\ provider[i].st = "pending" /\ provider[j].st = "rejected"
         /\ provider[k].st = "pending"
         /\ settleOrder = <<j>>

(***************************************************************************)
(* Properties of QuickOpenController                                       *)
(***************************************************************************)
Closes == {"close canceled", "close confirmed"}

\* the calls cs hold setSelection(sel) directly followed by the reveal of sel
RestoresSelection(cs, sel) ==
    \E k \in 1..(Len(cs) - 1) :
        /\ cs[k] = EditorCall("setSelection", ThisEditor, sel)
        /\ cs[k + 1] = EditorCall("revealRangeInCenterIfOutsideViewport", ThisEditor, sel)

\* C3: a run that finds no selection remembered remembers the editor's current
\* selection; a close as canceled with a selection remembered calls
\* editor.setSelection with it and reveals it, so that it is the editor's
\* selection afterwards, whatever the selection was before the close.
C3_RestoreOnCancel ==
    [][ /\ (lastOp' = "run" /\ lastKnownEditorSelection = NoSelection)
             => lastKnownEditorSelection' = editorSelection
        /\ (lastOp' = "close canceled" /\ lastKnownEditorSelection # NoSelection)
             => /\ RestoresSelection(editorCalls', lastKnownEditorSelection)
                /\ editorSelection' = lastKnownEditorSelection
                /\ \A k \in 1..Len(editorCalls') :
                     editorCalls'[k].fn = "setSelection"
                         => editorCalls'[k].arg = lastKnownEditorSelection
      ]_vars

C3_Witness ==
    /\ lastOp = "close canceled"
    /\ runHistory.first = runHistory.last
    /\ selectionBefore # runHistory.first
    /\ editorSelection = runHistory.first
    /\ RestoresSelection(editorCalls, runHistory.first)

\* C4: right after the widget closed, confirmed or canceled, no highlight
\* decoration remains in the controller's editor, rangeHighlightDecorationId
\* and lastKnownEditorSelection are null and the editor was given the focus.
C4_CleanAfterClose ==
    lastOp \in Closes =>
        /\ decorations[ThisEditor] = {}
        /\ rangeHighlightDecorationId = NoDecoration
        /\ lastKnownEditorSelection = NoSelection
        /\ focusOwner = "editor"
        /\ editorCalls # <<>>
        /\ editorCalls[Len(editorCalls)] = EditorCall("focus", ThisEditor, "-")

\* C10: a run that finds a selection remembered keeps it; the remembered
\* selection changes only by a close, which resets it; and a close as canceled
\* restores the selection the editor had at the first run since the last close.
C10_FirstRunSelectionWins ==
    [][ /\ (lastOp' = "run" /\ lastKnownEditorSelection # NoSelection)
             => lastKnownEditorSelection' = lastKnownEditorSelection
        /\ (lastKnownEditorSelection # NoSelection
                /\ lastKnownEditorSelection' # lastKnownEditorSelection)
             => (lastOp' \in Closes /\ lastKnownEditorSelection' = NoSelection)
        /\ lastOp' = "close canceled"
             => /\ runHistory.open
                /\ editorSelection' = runHistory.first
                /\ RestoresSelection(editorCalls', runHistory.first)
      ]_vars

C10_Witness ==
    /\ lastOp = "close canceled"
    /\ runHistory.last # runHistory.first
    /\ selectionBefore # runHistory.first
    /\ selectionBefore # runHistory.last
    /\ editorSelection = runHistory.first

\* the calls cs change the editor's selection or reveal a range
SelectsOrReveals(cs) ==
    \E k \in 1..Len(cs) :
        cs[k].fn \in {"setSelection", "revealRangeInCenterIfOutsideViewport"}

\* C11: a close as confirmed calls neither editor.setSelection nor a reveal and
\* leaves the editor's selection as it is; it touches only the decorations, the
\* recorded decoration id, the remembered selection and the focus (the widget
\* field and the live widgets stay).
C11_ConfirmKeepsSelection ==
    [][ lastOp' = "close confirmed"
          => /\ ~SelectsOrReveals(editorCalls')
             /\ editorSelection' = editorSelection
             /\ editorCalls'[Len(editorCalls')] = EditorCall("focus", ThisEditor, "-")
             /\ lastKnownEditorSelection' = NoSelection
             /\ focusOwner' = "editor"
             /\ UNCHANGED <<widget, liveWidgets>>
      ]_vars

\* a close as confirmed with a selection remembered that is not the editor's
C11_Witness ==
    /\ lastOp = "close confirmed"
    /\ runHistory.first # NoSelection
    /\ runHistory.first # editorSelection
    /\ selectionBefore = editorSelection
    /\ Len(editorCalls) = 2

\* the highlight decorations alive in some editor (the controller makes them all)
LiveHighlights == UNION { decorations[e] : e \in Editors }

\* C12: at most one highlight decoration created by the controller is alive,
\* and rangeHighlightDecorationId is its id whenever there is one.
C12_OneHighlight ==
    /\ Cardinality(LiveHighlights) <= 1
    /\ \A d \in LiveHighlights : d.id = rangeHighlightDecorationId

\* C13: at most one widget created by the controller is alive, and it is the
\* one in the widget field: after dispose no widget is alive.
C13_OneWidget ==
    /\ Cardinality(liveWidgets) <= 1
    /\ widget = NoWidget => liveWidgets = {}
    /\ widget # NoWidget => liveWidgets = {widget}
    /\ lastOp = "dispose" => (widget = NoWidget /\ liveWidgets = {})

\* a second run has destroyed the first widget and created another
C13_Witness ==
    /\ lastOp = "run"
    /\ widget = 2
    /\ liveWidgets = {2}

(***************************************************************************)
(* Properties of OneCursor                                                 *)
(***************************************************************************)
InsideText(text, p) ==
    /\ 1 <= p.lineNumber /\ p.lineNumber <= Len(text)
    /\ 1 <= p.column /\ p.column <= getLineMaxColumn(text, p.lineNumber)

\* C5: right after construction, setState and ensureValidState the model
\* state is validated: selectionStart is what validateRange makes of it and
\* position is what validatePosition makes of it (both lie inside the text).
C5_ModelStateValidated ==
    cursorOp \in {"new", "setState", "ensureValidState"} =>
        /\ modelState # NoState
        /\ modelState.selectionStart = validateRange(textLines, modelState.selectionStart)
        /\ modelState.position = validatePosition(textLines, modelState.position)
        /\ InsideText(textLines, modelState.position)
        /\ InsideText(textLines, StartOf(modelState.selectionStart))
        /\ InsideText(textLines, EndOf(modelState.selectionStart))

\* ensureValidState has just moved a cursor that an edit had left outside the text
C5_Witness ==
    /\ cursorOp = "ensureValidState"
    /\ trackedRangeCalls # <<>>
    /\ modelState.position = Position(Len(textLines), getLineMaxColumn(textLines, Len(textLines)))
    /\ modelState.position # Position(1, 1)
    /\ modelState.selectionStart
         # RangeOf(modelState.position, modelState.position)

\* the last operation called _setState
CalledSetState == cursorOp \in {"new", "setState", "ensureValidState"}

\* C14: after _setState with a model state given, the stored
\* leftoverVisibleColumns is the given one if validatePosition left the
\* position as it was and 0 otherwise, and the stored
\* selectionStartLeftoverVisibleColumns is the given one if validateRange left
\* selectionStart as it was and 0 otherwise, each decided on its own.
C14_LeftoversKeptOrReset ==
    (CalledSetState /\ setStateArgs.modelState # NoState) =>
        LET given == setStateArgs.modelState IN
        /\ modelState.leftoverVisibleColumns =
               IF validatePosition(textLines, given.position) = given.position
               THEN given.leftoverVisibleColumns ELSE 0
        /\ modelState.selectionStartLeftoverVisibleColumns =
               IF validateRange(textLines, given.selectionStart) = given.selectionStart
               THEN given.selectionStartLeftoverVisibleColumns ELSE 0

\* setState has kept the leftover of a valid position and reset the one of a
\* selectionStart that validateRange changed
C14_Witness ==
    /\ cursorOp = "setState"
    /\ setStateArgs.modelState # NoState
    /\ setStateArgs.modelState.leftoverVisibleColumns = 3
    /\ setStateArgs.modelState.selectionStartLeftoverVisibleColumns = 2
    /\ modelState.leftoverVisibleColumns = 3
    /\ modelState.selectionStartLeftoverVisibleColumns = 0
    /\ modelState.position = setStateArgs.modelState.position
    /\ modelState.selectionStart # setStateArgs.modelState.selectionStart

\* the model state and the view state _setState computes from its arguments
ComputedModelState(text, args) == NewModelState(text, args.modelState, args.viewState)
ComputedViewState(text, args) ==
    NewViewState(text, ComputedModelState(text, args), args.viewState)

\* C15: a setState or ensureValidState whose computed model state and view
\* state equal the current ones leaves modelState, viewState and the tracked
\* range as they are and does not call _setTrackedRange; an ensureValidState
\* right after an ensureValidState is such a step.
C15_NoOpWhenEqual ==
    [][ /\ ( /\ cursorOp' \in {"setState", "ensureValidState"}
             /\ ComputedModelState(textLines, setStateArgs') = modelState
             /\ ComputedViewState(textLines, setStateArgs') = viewState )
          => /\ UNCHANGED <<modelState, viewState, selTrackedRange>>
             /\ trackedRangeCalls' = <<>>
        /\ (cursorOp = "ensureValidState" /\ cursorOp' = "ensureValidState")
          => /\ UNCHANGED <<modelState, viewState, selTrackedRange>>
             /\ trackedRangeCalls' = <<>>
      ]_vars

\* ensureValidState has found a cursor away from the start already valid
C15_Witness ==
    /\ cursorOp = "ensureValidState"
    /\ setStateArgs = StateArgs(modelState, viewState)
    /\ trackedRangeCalls = <<>>
    /\ modelState.position # Position(1, 1)
    /\ modelState.selectionStart # RangeOf(modelState.position, modelState.position)

\* the view state is derived from the stored model state
ViewDerivedFromModel ==
    /\ StartOf(viewState.selectionStart) =
           convertModelPositionToViewPosition(textLines, StartOf(modelState.selectionStart))
    /\ EndOf(viewState.selectionStart) =
           convertModelPositionToViewPosition(textLines, EndOf(modelState.selectionStart))
    /\ viewState.position =
           convertModelPositionToViewPosition(textLines, modelState.position)

\* the model state is the validated image of the given view state vs
ModelDerivedFromView(vs) ==
    /\ modelState.selectionStart =
           validateRange(textLines, convertViewRangeToModelRange(textLines, vs.selectionStart))
    /\ modelState.position =
           validatePosition(textLines,
                            convertViewPositionToModelPosition(
                                textLines, vs.position.lineNumber, vs.position.column))

\* the view state is the given view state vs validated against the stored model state
ViewValidatedAgainstModel(vs) ==
    /\ viewState.selectionStart =
           validateViewRange(textLines, vs.selectionStart, modelState.selectionStart)
    /\ viewState.position =
           validateViewPosition(textLines, vs.position, modelState.position)

\* C16: after _setState, with no view state given the stored view state is the
\* image of the stored (validated) model state under
\* convertModelPositionToViewPosition; with no model state given the stored
\* model state is the validated image of the given view state under the
\* view-to-model conversions; with a view state given it is stored validated
\* against the stored model state.
C16_DerivedFromTheOther ==
    CalledSetState =>
        /\ (setStateArgs.viewState = NoState) => ViewDerivedFromModel
        /\ (setStateArgs.modelState = NoState) => ModelDerivedFromView(setStateArgs.viewState)
        /\ (setStateArgs.viewState # NoState) => ViewValidatedAgainstModel(setStateArgs.viewState)

\* setState with a model state alone has put the cursor on the second view
\* line of a wrapped line
C16_Witness ==
    /\ cursorOp = "setState"
    /\ setStateArgs.viewState = NoState
    /\ trackedRangeCalls # <<>>
    /\ viewState.position # modelState.position
    /\ viewState.position.lineNumber > modelState.position.lineNumber

====
